---- MODULE Spec2Model ----
(***************************************************************************)
(* Model of the duel subsystem of cp-master-bot: the duels and users       *)
(* tables of database.py and the four command handlers of                  *)
(* handlers/duel.py (/duel, /accept, /decline, /duelstatus); and of its    *)
(* streak subsystem: the streaks table with database.update_streak, and   *)
(* calculate_streak_from_submissions of handlers/tracker.py.               *)
(*                                                                         *)
(* A handler is a coroutine.  Everything it does between two awaits is one *)
(* atomic step, because the event loop is single threaded and every        *)
(* database.py function is synchronous and commits before it returns.  A   *)
(* handler suspended in an await with work left to do is a frame in        *)
(* `tasks`.  The reply that ends a handler is an await too, but nothing    *)
(* follows it, so the handler is taken to end with its last step before    *)
(* that reply; `last` records what this step was and how it ended.         *)
(*                                                                         *)
(* Time is the wall clock in minutes.  An await lasts seconds (the HTTP    *)
(* timeout of codeforces_api.make_request is 10 s), so the clock advances  *)
(* only while no handler is suspended.                                     *)
(***************************************************************************)
EXTENDS Integers, Sequences, FiniteSets, TLC

VARIABLES duels, users, now, tasks, last

\* the streaks table; the call of update_streak made last and the branch it
\* took; and, for each user, the dates update_streak was called on and
\* whether they came in order
VARIABLES streaks, call, solved, ordered

\* the call of calculate_streak_from_submissions made last: its arguments, the
\* date it read from the clock and what it returned
VARIABLES hist

\* the call of the problem selector made last: its arguments, what the
\* platform answered and what the selector returned
VARIABLES sel

\* the call of weekly_report made last: the history it fetched, the time it
\* read from the clock and how it ended
VARIABLES report

duelVars == <<duels, users, now, tasks, last>>

streakVars == <<streaks, call, solved, ordered>>

vars == <<duels, users, now, tasks, last, streaks, call, solved, ordered, hist, sel, report>>

(***************************************************************************)
(* Bounds of the model.                                                    *)
(***************************************************************************)
MaxDuels == 2
MaxTasks == 2
MaxTime == 120
MaxDay == 3
MaxSolves == 3
MaxSubs == 4
MaxHistDay == 4

TickSteps == {60}
Users == {1, 2}
TaskIds == 1..MaxTasks
Days == 0..MaxDay
HistDays == 0..MaxHistDay

(***************************************************************************)
(* Program constants.                                                      *)
(***************************************************************************)
DUEL_DURATION == 60
MIN_RATING == 800
MAX_RATING == 3500
RATING_WINDOW == 100

(***************************************************************************)
(* SQL NULL / Python None, one per column type.                            *)
(***************************************************************************)
NullTime == <<>>
NullText == "NULL"
NullId == 0

(***************************************************************************)
(* Inputs of the handlers.                                                 *)
(***************************************************************************)
Chats == {[id |-> 100, type |-> "group"], [id |-> 200, type |-> "private"]}

\* a command argument: a token that int() parses to val, or one it rejects
Mention == [isInt |-> FALSE, val |-> 0]
RatingArgs == {[isInt |-> TRUE, val |-> 799], [isInt |-> TRUE, val |-> 1400],
               [isInt |-> TRUE, val |-> 3501], [isInt |-> FALSE, val |-> 0]}
ArgLists == {<<Mention>>} \cup {<<Mention, r>> : r \in RatingArgs}

\* the /duel updates: every well-formed command between any two users, with or
\* without a replied-to message, and from user 1 to user 2 the same command in
\* a private chat and with each other argument list
GroupChat == [id |-> 100, type |-> "group"]
GoodArgs == <<Mention, [isInt |-> TRUE, val |-> 1400]>>
ChallengeInputs ==
    {[chat |-> GroupChat, user |-> u, args |-> GoodArgs, replied |-> r] :
        u \in Users, r \in Users \cup {NullId}}
    \cup {[chat |-> c, user |-> 1, args |-> GoodArgs, replied |-> 2] : c \in Chats}
    \cup {[chat |-> GroupChat, user |-> 1, args |-> a, replied |-> 2] : a \in ArgLists}

\* the Codeforces problem set as problemset.problems returns it
Problemset ==
    { [contestId |-> 1, index |-> "A", name |-> "P900", hasRating |-> TRUE, rating |-> 900],
      [contestId |-> 2, index |-> "B", name |-> "P1299", hasRating |-> TRUE, rating |-> 1299],
      [contestId |-> 3, index |-> "C", name |-> "P1300", hasRating |-> TRUE, rating |-> 1300],
      [contestId |-> 4, index |-> "D", name |-> "P1500", hasRating |-> TRUE, rating |-> 1500],
      [contestId |-> 5, index |-> "E", name |-> "P1501", hasRating |-> TRUE, rating |-> 1501],
      [contestId |-> 0, index |-> "F", name |-> "PNoId", hasRating |-> TRUE, rating |-> 1400],
      [contestId |-> 6, index |-> "G", name |-> "PUnrated", hasRating |-> FALSE, rating |-> 0] }

\* what make_request hands back: a failure (None) or the problem set
Responses == {[ok |-> FALSE, problems |-> {}], [ok |-> TRUE, problems |-> Problemset]}

(***************************************************************************)
(* Timestamps are stored as text and parsed back when read.                *)
(***************************************************************************)
ToIso(t) == <<t \div 60, t % 60>>

FromIso(s) == s[1] * 60 + s[2]

IsoLeq(a, b) == a[1] < b[1] \/ (a[1] = b[1] /\ a[2] <= b[2])

(***************************************************************************)
(* database.py: the duels table.                                           *)
(***************************************************************************)
DuelIds(ds) == 1..Len(ds)

NewDuel(chat_id, challenger_id, challenged_id, problem_rating, created_at) ==
    [chat_id |-> chat_id, challenger_id |-> challenger_id,
     challenged_id |-> challenged_id, problem_rating |-> problem_rating,
     problem_name |-> NullText, problem_url |-> <<>>, status |-> "pending",
     start_time |-> NullTime, end_time |-> NullTime, winner_id |-> NullId,
     created_at |-> created_at]

\* the two user ids bound to the wrong columns of the INSERT
create_duel_swapped(ds, chat_id, challenger_id, challenged_id, problem_rating, ts) ==
    Append(ds, NewDuel(chat_id, challenged_id, challenger_id, problem_rating, ts))

create_duel(ds, chat_id, challenger_id, challenged_id, problem_rating, ts) ==
    Append(ds, NewDuel(chat_id, challenger_id, challenged_id, problem_rating, ts))

\* ORDER BY created_at ASC in place of DESC
LeastRecent(ds, S) ==
    {i \in S : \A j \in S : IsoLeq(ds[i].created_at, ds[j].created_at)}

\* ORDER BY created_at DESC LIMIT 1: the rows of S no other row of S is newer
\* than; SQLite returns one of them
MostRecent(ds, S) ==
    {i \in S : \A j \in S : IsoLeq(ds[j].created_at, ds[i].created_at)}

\* the WHERE clause on challenger_id in place of challenged_id
PendingRowsByChallenger(ds, user_id) ==
    {i \in DuelIds(ds) : ds[i].challenger_id = user_id /\ ds[i].status = "pending"}

\* the WHERE clause taking either participant
PendingRowsByParticipant(ds, user_id) ==
    {i \in DuelIds(ds) : /\ (ds[i].challenger_id = user_id \/ ds[i].challenged_id = user_id)
                         /\ ds[i].status = "pending"}

PendingRows(ds, user_id) ==
    {i \in DuelIds(ds) : ds[i].challenged_id = user_id /\ ds[i].status = "pending"}

\* the WHERE clause without its status test
get_pending_duel_any_status(ds, user_id) ==
    MostRecent(ds, {i \in DuelIds(ds) : ds[i].challenged_id = user_id})

get_pending_duel(ds, user_id) == MostRecent(ds, PendingRows(ds, user_id))

\* the status test widened to the duels that have ended
ActiveOrCompletedRows(ds, user_id) ==
    {i \in DuelIds(ds) : /\ (ds[i].challenger_id = user_id \/ ds[i].challenged_id = user_id)
                         /\ ds[i].status \in {"active", "completed"}}

ActiveRows(ds, user_id) ==
    {i \in DuelIds(ds) : /\ (ds[i].challenger_id = user_id \/ ds[i].challenged_id = user_id)
                         /\ ds[i].status = "active"}

\* the query that goes on returning a duel it has completed
get_active_duel_or_ended(ds, user_id) == MostRecent(ds, ActiveOrCompletedRows(ds, user_id))

get_active_duel(ds, user_id) == MostRecent(ds, ActiveRows(ds, user_id))

\* kwargs is a record of the columns to set besides status
update_duel_status(ds, duel_id, status, kwargs) ==
    [i \in DuelIds(ds) |->
        IF i = duel_id
        THEN [c \in DOMAIN ds[i] |->
                IF c = "status" THEN status
                ELSE IF c \in DOMAIN kwargs THEN kwargs[c]
                ELSE ds[i][c]]
        ELSE ds[i]]

create_or_update_user(us, user_id) == us \cup {user_id}

(***************************************************************************)
(* services: the problem selector as /accept uses it.                      *)
(***************************************************************************)
\* the lower end of the window left out
get_problems_by_rating_no_min(resp, min_rating, max_rating) ==
    {p \in resp.problems : p.hasRating /\ p.rating <= max_rating}

get_problems_by_rating(resp, min_rating, max_rating) ==
    {p \in resp.problems : p.hasRating /\ min_rating <= p.rating /\ p.rating <= max_rating}

format_problem_url(contest_id, index) ==
    <<"https://codeforces.com/problemset/problem", contest_id, index>>

\* the selector's None
NoProblem == [found |-> FALSE, name |-> NullText, rating |-> 0, url |-> <<>>]

\* the dictionary built from the drawn problem, None when it has no id
FormatProblem(p) ==
    IF p.contestId = 0 \/ p.index = "" THEN NoProblem
    ELSE [found |-> TRUE, name |-> p.name, rating |-> p.rating,
          url |-> format_problem_url(p.contestId, p.index)]

\* nothing to draw from when no rating is given
CandidateProblemsRatedOnly(resp, rating) ==
    IF ~resp.ok \/ rating = 0 THEN {}
    ELSE get_problems_by_rating(resp, rating - RATING_WINDOW, rating + RATING_WINDOW)

\* the list random.choice draws from
CandidateProblems(resp, rating) ==
    IF ~resp.ok THEN {}
    ELSE IF rating # 0
         THEN get_problems_by_rating(resp, rating - RATING_WINDOW, rating + RATING_WINDOW)
         ELSE resp.problems

\* every value get_codeforces_problem can return on this response
get_codeforces_problem(resp, rating) ==
    IF CandidateProblems(resp, rating) = {} THEN {NoProblem}
    ELSE {FormatProblem(p) : p \in CandidateProblems(resp, rating)}

get_random_problem(resp, rating) == get_codeforces_problem(resp, rating)

(***************************************************************************)
(* services: the selector with a topic.  A tag and a topic are text;       *)
(* str.lower() is given on the texts the model uses.                       *)
(***************************************************************************)
NoTopic == ""

Topics == {"dp", "DP", "graphs"}

Lower(s) ==
    CASE s = "DP" -> "dp"
      [] s = "Greedy" -> "greedy"
      [] OTHER -> s

\* problems as problemset.problems lists them, with their tags
TaggedProblemset ==
    { [contestId |-> 11, index |-> "A", name |-> "Q1299", hasRating |-> TRUE, rating |-> 1299,
       tags |-> {"dp"}],
      [contestId |-> 12, index |-> "B", name |-> "Q1300", hasRating |-> TRUE, rating |-> 1300,
       tags |-> {"dp", "Greedy"}],
      [contestId |-> 13, index |-> "C", name |-> "Q1500", hasRating |-> TRUE, rating |-> 1500,
       tags |-> {"DP"}],
      [contestId |-> 14, index |-> "D", name |-> "Q1501", hasRating |-> TRUE, rating |-> 1501,
       tags |-> {"dp"}],
      [contestId |-> 15, index |-> "E", name |-> "Q1600", hasRating |-> TRUE, rating |-> 1600,
       tags |-> {"dp"}],
      [contestId |-> 16, index |-> "F", name |-> "Q1400", hasRating |-> TRUE, rating |-> 1400,
       tags |-> {"greedy"}],
      [contestId |-> 0, index |-> "G", name |-> "QNoId", hasRating |-> TRUE, rating |-> 1400,
       tags |-> {"dp"}],
      [contestId |-> 17, index |-> "H", name |-> "QUnrated", hasRating |-> FALSE, rating |-> 0,
       tags |-> {"dp"}] }

\* the ratings a caller passes: None (0 here) or a target
SelectorRatings == {0, MIN_RATING, 1400}

\* what make_request hands back: a failure (None) or any list of problems
SelectorResponses ==
    {[ok |-> FALSE, problems |-> {}]}
        \cup {[ok |-> TRUE, problems |-> ps] : ps \in SUBSET TaggedProblemset}

SEARCH_LIMIT == 50

HasAllTags(problem, tags) ==
    \A tag \in tags : Lower(tag) \in {Lower(t) : t \in problem.tags}

\* every list search_problems_by_tags can return on this response: the
\* matching problems, cut after the first `limit` of them in the order of
\* the response
search_problems_by_tags(resp, tags, limit) ==
    LET filtered == {p \in resp.problems : HasAllTags(p, tags)}
    IN  IF ~resp.ok THEN {{}}
        ELSE IF Cardinality(filtered) <= limit THEN {filtered}
        ELSE {ps \in SUBSET filtered : Cardinality(ps) = limit}

Abs(n) == IF n < 0 THEN -n ELSE n

TOPIC_RATING_WINDOW == 200

\* the dictionary built from the drawn problem, None when it has no id
FormatTopicProblem(p) ==
    IF p.contestId = 0 \/ p.index = "" THEN NoProblem
    ELSE [found |-> TRUE, name |-> p.name, rating |-> p.rating, tags |-> p.tags,
          url |-> format_problem_url(p.contestId, p.index)]

\* the list random.choice draws from, given what the search returned
TopicCandidates(problems, rating) ==
    IF rating # 0
    THEN {p \in problems : p.hasRating /\ Abs(p.rating - rating) <= TOPIC_RATING_WINDOW}
    ELSE problems

\* every value get_codeforces_problem_by_topic can return on this response
get_codeforces_problem_by_topic(resp, topic, rating) ==
    UNION { IF TopicCandidates(problems, rating) = {} THEN {NoProblem}
            ELSE {FormatTopicProblem(p) : p \in TopicCandidates(problems, rating)} :
            problems \in search_problems_by_tags(resp, {topic}, SEARCH_LIMIT) }

get_problem_by_topic(resp, topic, rating) ==
    get_codeforces_problem_by_topic(resp, topic, rating)

InitSelector ==
    sel = [called |-> FALSE, rating |-> 0, topic |-> NoTopic,
           resp |-> [ok |-> FALSE, problems |-> {}], result |-> NoProblem]


(***************************************************************************)
(* database.py: the streaks table.  A date is a day number, day 0 being    *)
(* 2024-02-27; the DATE column holds its ISO text, which update_streak     *)
(* parses back with strptime('%Y-%m-%d').                                  *)
(***************************************************************************)
NullDate == <<>>

\* date.isoformat(), as sqlite3 adapts a date parameter
ToIsoDate(d) == IF d <= 2 THEN <<2024, 2, 27 + d>> ELSE <<2024, 3, d - 2>>

\* datetime.strptime(text, '%Y-%m-%d').date()
FromIsoDate(s) == IF s[2] = 2 THEN s[3] - 27 ELSE s[3] + 2

NoStreak ==
    [exists |-> FALSE, current_streak |-> 0, max_streak |-> 0,
     last_solve_date |-> NullDate, total_solves |-> 0]

StreakRow(current, max_s, last_date, total) ==
    [exists |-> TRUE, current_streak |-> current, max_streak |-> max_s,
     last_solve_date |-> last_date, total_solves |-> total]

Max(a, b) == IF a >= b THEN a ELSE b

\* Python's None for a row whose last_solve_date is NULL
NoDate == -1

\* last_date as update_streak reads it from the row
LastDate(row) ==
    IF row.last_solve_date = NullDate THEN NoDate ELSE FromIsoDate(row.last_solve_date)

\* the same-day test left out
AlreadySolvedNever(last_date, today) == FALSE

\* last_date == today
AlreadySolvedToday(last_date, today) == last_date = today

\* any later day taken for the next day
ContinuesStreakAnyGap(last_date, today) ==
    last_date # NoDate /\ today - last_date >= 1

\* last_date and (today - last_date).days == 1
ContinuesStreak(last_date, today) ==
    last_date # NoDate /\ today - last_date = 1

\* max_s left as it was when the streak grows
ContinuedMaxStale(max_s, current) == max_s

\* max_s = max(max_s, current), current being the streak after its increment
ContinuedMax(max_s, current) == Max(max_s, current)

\* max_s started over together with the streak
BrokenMaxReset(max_s) == 1

\* the broken-streak branch assigns current only: max_s is stored as read
BrokenMax(max_s) == max_s

\* the UPDATE without its increment
NextTotalSame(total) == total

\* total_solves = total_solves + 1
NextTotal(total) == total + 1

\* the branch update_streak takes for a user whose row is `row`
StreakBranch(row, today) ==
    IF ~row.exists THEN "first"
    ELSE IF AlreadySolvedToday(LastDate(row), today) THEN "same"
    ELSE IF ContinuesStreak(LastDate(row), today) THEN "continued"
    ELSE "broken"

\* the row update_streak leaves for a user whose row is `row`
UpdatedStreak(row, today) ==
    IF StreakBranch(row, today) = "first" THEN StreakRow(1, 1, ToIsoDate(today), 1)
    ELSE IF StreakBranch(row, today) = "same" THEN row
    ELSE IF StreakBranch(row, today) = "continued"
    THEN StreakRow(row.current_streak + 1,
                   ContinuedMax(row.max_streak, row.current_streak + 1),
                   ToIsoDate(today), NextTotal(row.total_solves))
    ELSE StreakRow(1, BrokenMax(row.max_streak), ToIsoDate(today),
                   NextTotal(row.total_solves))

\* one call: the SELECT, the branch, the write and the commit
update_streak(user_id, today) ==
    /\ UpdatedStreak(streaks[user_id], today).total_solves <= MaxSolves
    /\ streaks' = [streaks EXCEPT ![user_id] = UpdatedStreak(streaks[user_id], today)]
    /\ call' = [user |-> user_id, today |-> today,
                branch |-> StreakBranch(streaks[user_id], today)]
    /\ solved' = [solved EXCEPT ![user_id] = @ \cup {today}]
    /\ ordered' = [ordered EXCEPT ![user_id] =
                      @ /\ \A d \in solved[user_id] : d <= today]

InitStreaks ==
    /\ streaks = [u \in Users |-> NoStreak]
    /\ call = [user |-> NullId, today |-> 0, branch |-> "none"]
    /\ solved = [u \in Users |-> {}]
    /\ ordered = [u \in Users |-> TRUE]

(***************************************************************************)
(* handlers/tracker.py: calculate_streak_from_submissions.  A submission   *)
(* carries its verdict and creationTimeSeconds; the model counts time in   *)
(* half days, so a date holds two instants.                                *)
(***************************************************************************)
Verdicts == {"OK", "WRONG_ANSWER"}

Timestamps == 0..(2 * MaxHistDay + 1)

\* an accepted submission at every instant, a rejected one at the first
\* instant of every date
Submissions ==
    {s \in [verdict : Verdicts, creationTimeSeconds : Timestamps] :
        s.verdict = "OK" \/ s.creationTimeSeconds % 2 = 0}

\* the lists of at most n submissions, none made after the instant top, with
\* the newest first, as user.status lists them
RECURSIVE NewestFirst(_, _)
NewestFirst(n, top) ==
    IF n = 0 THEN {<<>>}
    ELSE {<<>>} \cup
         UNION {{<<s>> \o l : l \in NewestFirst(n - 1, s.creationTimeSeconds)} :
                   s \in {x \in Submissions : x.creationTimeSeconds <= top}}

\* datetime.fromtimestamp(ts).date()
DateOfTimestamp(ts) == ts \div 2

StreakData(current, max_s, total) ==
    [current_streak |-> current, max_streak |-> max_s, total_solves |-> total]

SetMax(S) == CHOOSE m \in S : \A x \in S : x <= m

\* sorted(S, reverse=True)
RECURSIVE SortedReverse(_)
SortedReverse(S) ==
    IF S = {} THEN <<>> ELSE <<SetMax(S)>> \o SortedReverse(S \ {SetMax(S)})

\* the first loop, from position i on: it stops at the first date that is
\* not today - current_streak
RECURSIVE CurrentStreakLoop(_, _, _, _)
CurrentStreakLoop(sorted_dates, i, today, current_streak) ==
    IF i > Len(sorted_dates) THEN current_streak
    ELSE IF sorted_dates[i] = today - current_streak
    THEN CurrentStreakLoop(sorted_dates, i + 1, today, current_streak + 1)
    ELSE current_streak

\* the second loop without the restart of temp_streak at a gap
RECURSIVE MaxStreakLoopNoRestart(_, _, _, _)
MaxStreakLoopNoRestart(sorted_dates, i, temp_streak, max_streak) ==
    IF i > Len(sorted_dates) THEN max_streak
    ELSE IF sorted_dates[i - 1] - sorted_dates[i] = 1
    THEN MaxStreakLoopNoRestart(sorted_dates, i + 1, temp_streak + 1,
                                Max(max_streak, temp_streak + 1))
    ELSE MaxStreakLoopNoRestart(sorted_dates, i + 1, temp_streak, max_streak)

\* the second loop, from position i on
RECURSIVE MaxStreakLoop(_, _, _, _)
MaxStreakLoop(sorted_dates, i, temp_streak, max_streak) ==
    IF i > Len(sorted_dates) THEN max_streak
    ELSE IF sorted_dates[i - 1] - sorted_dates[i] = 1
    THEN MaxStreakLoop(sorted_dates, i + 1, temp_streak + 1,
                       Max(max_streak, temp_streak + 1))
    ELSE MaxStreakLoop(sorted_dates, i + 1, 1, max_streak)

\* the filter on the verdict left out
IsAcceptedAny(s) == TRUE

IsAccepted(s) == s.verdict = "OK"

calculate_streak_from_submissions(submissions, today) ==
    IF Len(submissions) = 0 THEN StreakData(0, 0, 0)
    ELSE LET accepted == SelectSeq(submissions, IsAccepted)
             solve_dates == {DateOfTimestamp(accepted[i].creationTimeSeconds) :
                                i \in 1..Len(accepted)}
             sorted_dates == SortedReverse(solve_dates)
         IN  IF Len(sorted_dates) = 0 THEN StreakData(0, 0, 0)
             ELSE StreakData(CurrentStreakLoop(sorted_dates, 1, today, 0),
                             MaxStreakLoop(sorted_dates, 2, 1, 1),
                             Cardinality(solve_dates))

InitHistory ==
    hist = [called |-> FALSE, submissions |-> <<>>, today |-> 0,
            result |-> StreakData(0, 0, 0)]

(***************************************************************************)
(* handlers/tracker.py: show_streak, for a user with or without a linked   *)
(* handle.  get_user_submissions returns the newest submissions first, or  *)
(* nothing when the request fails.                                         *)
(***************************************************************************)
MaxShown == 1

\* what the platform may list on the date today: submissions of that date
\* and of the date before
ShowHistories(today) ==
    {l \in NewestFirst(MaxShown, 2 * today + 1) :
        \A i \in 1..Len(l) : DateOfTimestamp(l[i].creationTimeSeconds) >= today - 1}

\* the handler from the lookup of the handle to the reply; both dates are
\* datetime.now().date() of the same moment
show_streak(user_id, linked, submissions, today) ==
    IF ~linked \/ submissions = <<>>
    THEN UNCHANGED <<streakVars, hist>>
    ELSE /\ hist' = [called |-> TRUE, submissions |-> submissions, today |-> today,
                     result |-> calculate_streak_from_submissions(submissions, today)]
         /\ update_streak(user_id, today)

(***************************************************************************)
(* handlers/tracker.py: weekly_report.  A submission carries its verdict,  *)
(* its creationTimeSeconds (in half days) and its problem.                 *)
(***************************************************************************)
WEEK_DAYS == 7

MaxReportSubs == 2

\* the clock when the report is asked for
ReportNow == 2 * WEEK_DAYS + 1

\* just over a week old, a week old to the instant, just under, and now
ReportTimestamps == {ReportNow - 2 * WEEK_DAYS - 1, ReportNow - 2 * WEEK_DAYS,
                     ReportNow - 2 * WEEK_DAYS + 1, ReportNow}

\* a rated problem, an unrated one and one without contestId
ReportProblems ==
    { [contestId |-> 1, index |-> "A", hasRating |-> TRUE, rating |-> 800],
      [contestId |-> 2, index |-> "B", hasRating |-> FALSE, rating |-> 0],
      [contestId |-> 0, index |-> "C", hasRating |-> TRUE, rating |-> 800] }

ReportSubmissions ==
    [verdict : Verdicts, creationTimeSeconds : ReportTimestamps, problem : ReportProblems]

RECURSIVE ReportHistories(_, _)
ReportHistories(n, top) ==
    IF n = 0 THEN {<<>>}
    ELSE {<<>>} \cup
         UNION {{<<s>> \o l : l \in ReportHistories(n - 1, s.creationTimeSeconds)} :
                   s \in {x \in ReportSubmissions : x.creationTimeSeconds <= top}}

\* f"{x:.1f}" of accepted / total * 100, in tenths of a percent
AcceptanceRate(accepted, total) == (accepted * 2000 + total) \div (2 * total)

NoReport ==
    [outcome |-> "none", solved |-> 0, total |-> 0, rate |-> 0, by_difficulty |-> <<>>]

\* how the handler ends on this history
WeeklyReportOutcome(linked, submissions, clock) ==
    LET week_ago == clock - 2 * WEEK_DAYS
        InWeek(s) == s.creationTimeSeconds > week_ago
        week_submissions == SelectSeq(submissions, InWeek)
        accepted == SelectSeq(week_submissions, IsAccepted)
        solved_problems == {accepted[i].problem : i \in 1..Len(accepted)}
        ratings == {p.rating : p \in {q \in solved_problems : q.hasRating}}
        difficulty_count ==
            [r \in ratings |->
                Cardinality({i \in 1..Len(accepted) :
                    accepted[i].problem.hasRating /\ accepted[i].problem.rating = r})]
    IN  IF ~linked THEN [NoReport EXCEPT !.outcome = "NoHandle"]
        ELSE IF submissions = <<>> THEN [NoReport EXCEPT !.outcome = "FetchFailed"]
        ELSE IF \E p \in solved_problems : p.contestId = 0
        THEN [NoReport EXCEPT !.outcome = "KeyError"]
        ELSE IF Len(week_submissions) = 0
        THEN [NoReport EXCEPT !.outcome = "ZeroDivisionError"]
        ELSE [outcome |-> "Report",
              solved |-> Cardinality(solved_problems),
              total |-> Len(week_submissions),
              rate |-> AcceptanceRate(Len(accepted), Len(week_submissions)),
              by_difficulty |-> difficulty_count]

InitReport ==
    report = [called |-> FALSE, linked |-> FALSE, submissions |-> <<>>, clock |-> 0,
              result |-> NoReport]

(***************************************************************************)
(* Handler frames and the record of the last step.                         *)
(***************************************************************************)
Idle == [op |-> "none", user |-> NullId, pc |-> "idle", duel |-> NullId, rating |-> 0]

Frame(op, user, pc, duel, rating) ==
    [op |-> op, user |-> user, pc |-> pc, duel |-> duel, rating |-> rating]

Outcome(op, user, outcome, duel) ==
    [op |-> op, user |-> user, outcome |-> outcome, duel |-> duel]

\* a new update is given the first free frame
FreeTask(t) ==
    /\ tasks[t].pc = "idle"
    /\ \A u \in TaskIds : u < t => tasks[u].pc # "idle"

InitDuels ==
    /\ duels = <<>>
    /\ users = {}
    /\ now = 0
    /\ tasks = [t \in TaskIds |-> Idle]
    /\ last = Outcome("none", NullId, "none", NullId)

Init == InitDuels /\ InitStreaks /\ InitHistory /\ InitSelector /\ InitReport

(***************************************************************************)
(* handlers/duel.py: /duel.                                                *)
(***************************************************************************)
\* the checks without the comparison of the two user ids
ValidateChallengeNoSelf(chat, user, args, replied) ==
    IF chat.type \notin {"group", "supergroup"} THEN "NotGroup"
    ELSE IF Len(args) < 2 THEN "BadFormat"
    ELSE IF ~args[2].isInt THEN "InvalidRating"
    ELSE IF args[2].val < MIN_RATING \/ args[2].val > MAX_RATING THEN "RatingOutOfRange"
    ELSE IF replied = NullId THEN "NoReplyTo"
    ELSE "ok"

\* the checks of challenge_user before it touches the store
ValidateChallenge(chat, user, args, replied) ==
    IF chat.type \notin {"group", "supergroup"} THEN "NotGroup"
    ELSE IF Len(args) < 2 THEN "BadFormat"
    ELSE IF ~args[2].isInt THEN "InvalidRating"
    ELSE IF args[2].val < MIN_RATING \/ args[2].val > MAX_RATING THEN "RatingOutOfRange"
    ELSE IF replied = NullId THEN "NoReplyTo"
    ELSE IF replied = user THEN "SelfChallenge"
    ELSE "ok"

\* the status test widened to the duels that are running
HasPendingOrActive(ds, challenged) ==
    \E i \in DuelIds(ds) : /\ ds[i].challenged_id = challenged
                            /\ ds[i].status \in {"pending", "active"}

\* the pending check left out
HasPendingNever(ds, challenged) == FALSE

\* whether the challenged user blocks a new challenge
HasPending(ds, challenged) == get_pending_duel(ds, challenged) # {}

\* No await separates get_pending_duel from create_duel: one step.
challenge_user(chat, user, args, replied) ==
    /\ LET v == ValidateChallenge(chat, user, args, replied) IN
       IF v # "ok"
       THEN /\ last' = Outcome("challenge", user, v, NullId)
            /\ UNCHANGED <<duels, users>>
       ELSE IF HasPending(duels, replied)
       THEN /\ last' = Outcome("challenge", user, "AlreadyPending", NullId)
            /\ UNCHANGED <<duels, users>>
       ELSE /\ Len(duels) < MaxDuels
            /\ users' = create_or_update_user(create_or_update_user(users, user), replied)
            /\ duels' = create_duel(duels, chat.id, user, replied, args[2].val, ToIso(now))
            /\ last' = Outcome("challenge", user, "Challenged", Len(duels) + 1)
    /\ UNCHANGED <<now, tasks>>

(***************************************************************************)
(* handlers/duel.py: /accept.                                              *)
(***************************************************************************)
\* the duration left out of the end time
EndTimeNoDuration(start_time) == start_time

EndTime(start_time) == start_time + DUEL_DURATION

\* the keyword arguments accept_duel passes to update_duel_status
AcceptKwargs(start_time, problem) ==
    [start_time |-> ToIso(start_time), end_time |-> ToIso(EndTime(start_time)),
     problem_name |-> problem.name, problem_url |-> problem.url]

\* up to the await of get_random_problem
accept_duel(t, user) ==
    /\ FreeTask(t)
    /\ IF get_pending_duel(duels, user) = {}
       THEN /\ last' = Outcome("accept", user, "NoPendingDuel", NullId)
            /\ UNCHANGED tasks
       ELSE \E d \in get_pending_duel(duels, user) :
               /\ tasks' = [tasks EXCEPT ![t] =
                              Frame("accept", user, "fetch", d, duels[d].problem_rating)]
               /\ last' = Outcome("accept", user, "Fetching", d)
    /\ UNCHANGED <<duels, users, now>>

\* the write without the test for a missing problem
AcceptWriteUnchecked(ds, duel_id, start_time, problem) ==
    update_duel_status(ds, duel_id, "active", AcceptKwargs(start_time, problem))

\* what accept_duel stores once get_random_problem has returned: nothing
\* when it got no problem
AcceptWrite(ds, duel_id, start_time, problem) ==
    IF ~problem.found THEN ds
    ELSE update_duel_status(ds, duel_id, "active", AcceptKwargs(start_time, problem))

\* from the return of get_random_problem to the end of the handler
accept_fetched(t, resp) ==
    /\ tasks[t].pc = "fetch"
    /\ \E problem \in get_random_problem(resp, tasks[t].rating) :
          /\ duels' = AcceptWrite(duels, tasks[t].duel, now, problem)
          /\ last' = Outcome("accept", tasks[t].user,
                             IF problem.found THEN "Started" ELSE "ProblemUnavailable",
                             tasks[t].duel)
    /\ tasks' = [tasks EXCEPT ![t] = Idle]
    /\ UNCHANGED <<users, now>>

(***************************************************************************)
(* handlers/duel.py: /decline.                                             *)
(***************************************************************************)
NoKwargs == <<>>

decline_duel(user) ==
    /\ IF get_pending_duel(duels, user) = {}
       THEN /\ last' = Outcome("decline", user, "NoPendingDuel", NullId)
            /\ UNCHANGED duels
       ELSE \E d \in get_pending_duel(duels, user) :
               /\ duels' = update_duel_status(duels, d, "declined", NoKwargs)
               /\ last' = Outcome("decline", user, "Declined", d)
    /\ UNCHANGED <<users, now, tasks>>

(***************************************************************************)
(* handlers/duel.py: /duelstatus.                                          *)
(***************************************************************************)
\* < in place of <=
ExpiredStrict(end_time, clock) == end_time - clock < 0

\* remaining.total_seconds() <= 0
Expired(end_time, clock) == end_time - clock <= 0

\* up to the await of the "Time's up" reply, or to the end of the handler;
\* fromisoformat raises on a NULL end_time
duel_status(t, user) ==
    /\ FreeTask(t)
    /\ IF get_active_duel(duels, user) = {}
       THEN /\ last' = Outcome("status", user, "NoActiveDuel", NullId)
            /\ UNCHANGED tasks
       ELSE \E d \in get_active_duel(duels, user) :
               IF duels[d].end_time = NullTime
               THEN /\ last' = Outcome("status", user, "Raised", d)
                    /\ UNCHANGED tasks
               ELSE IF Expired(FromIso(duels[d].end_time), now)
               THEN /\ last' = Outcome("status", user, "TimeUp", d)
                    /\ tasks' = [tasks EXCEPT ![t] = Frame("status", user, "timeup", d, 0)]
               ELSE /\ last' = Outcome("status", user, "Remaining", d)
                    /\ UNCHANGED tasks
    /\ UNCHANGED <<duels, users, now>>

\* after the "Time's up" reply: the write, then the handler returns
status_complete(t) ==
    /\ tasks[t].pc = "timeup"
    /\ duels' = update_duel_status(duels, tasks[t].duel, "completed", NoKwargs)
    /\ last' = Outcome("status", tasks[t].user, "Completed", tasks[t].duel)
    /\ tasks' = [tasks EXCEPT ![t] = Idle]
    /\ UNCHANGED <<users, now>>

(***************************************************************************)
(* The clock.                                                              *)
(***************************************************************************)
NoneSuspended == \A t \in TaskIds : tasks[t].pc = "idle"

Tick ==
    /\ NoneSuspended
    /\ \E d \in TickSteps : now + d <= MaxTime /\ now' = now + d
    /\ last' = Outcome("tick", NullId, "none", NullId)
    /\ UNCHANGED <<duels, users, tasks>>
    /\ UNCHANGED <<streakVars, hist, sel, report>>

(***************************************************************************)
(* Spec: updates are dispatched as they arrive, so a handler may start     *)
(* while another is suspended in an await.  This is the dispatch of an     *)
(* Application built with concurrent_updates, and it covers every order    *)
(* in which the dispatcher can run the handlers.                           *)
(***************************************************************************)
Challenge ==
    /\ \E i \in ChallengeInputs : challenge_user(i.chat, i.user, i.args, i.replied)
    /\ UNCHANGED <<streakVars, hist, sel, report>>

Accept ==
    /\ \E t \in TaskIds, user \in Users : accept_duel(t, user)
    /\ UNCHANGED <<streakVars, hist, sel, report>>

AcceptFetched ==
    /\ \E t \in TaskIds, resp \in Responses : accept_fetched(t, resp)
    /\ UNCHANGED <<streakVars, hist, sel, report>>

Decline ==
    /\ \E user \in Users : decline_duel(user)
    /\ UNCHANGED <<streakVars, hist, sel, report>>

Status ==
    /\ \E t \in TaskIds, user \in Users : duel_status(t, user)
    /\ UNCHANGED <<streakVars, hist, sel, report>>

StatusComplete ==
    /\ \E t \in TaskIds : status_complete(t)
    /\ UNCHANGED <<streakVars, hist, sel, report>>

Next ==
    \/ Challenge
    \/ Accept
    \/ AcceptFetched
    \/ Decline
    \/ Status
    \/ StatusComplete
    \/ Tick

Spec == Init /\ [][Next]_vars

(***************************************************************************)
(* SpecSerial: each update is handled to completion before the next one    *)
(* is taken from the queue, the dispatch of Application.builder().build()  *)
(* as main() calls it.                                                     *)
(***************************************************************************)
NextSerial ==
    \/ NoneSuspended /\ Challenge
    \/ NoneSuspended /\ Accept
    \/ AcceptFetched
    \/ NoneSuspended /\ Decline
    \/ NoneSuspended /\ Status
    \/ StatusComplete
    \/ Tick

SpecSerial == Init /\ [][NextSerial]_vars

(***************************************************************************)
(* SpecStoreError: SpecSerial with a store whose UPDATE may raise while    *)
(* /accept writes (a locked or unwritable database file).                  *)
(* update_duel_status catches the exception, commits nothing and returns   *)
(* False; accept_duel does not read the return value.                      *)
(***************************************************************************)
\* the except branch of update_duel_status: the table as it was
update_duel_status_raised(ds, duel_id, status, kwargs) == ds

\* from the return of get_random_problem with a problem to the end of the
\* handler, the UPDATE raising
accept_fetched_store_error(t, resp) ==
    /\ tasks[t].pc = "fetch"
    /\ \E problem \in get_random_problem(resp, tasks[t].rating) :
          /\ problem.found
          /\ duels' = update_duel_status_raised(duels, tasks[t].duel, "active",
                                                AcceptKwargs(now, problem))
          /\ last' = Outcome("accept", tasks[t].user, "Started", tasks[t].duel)
    /\ tasks' = [tasks EXCEPT ![t] = Idle]
    /\ UNCHANGED <<users, now>>

AcceptFetchedStoreError ==
    /\ \E t \in TaskIds, resp \in Responses : accept_fetched_store_error(t, resp)
    /\ UNCHANGED <<streakVars, hist, sel, report>>

NextStoreError == NextSerial \/ AcceptFetchedStoreError

SpecStoreError == Init /\ [][NextStoreError]_vars

(***************************************************************************)
(* SpecPolling: SpecSerial with a user who keeps sending /duelstatus.      *)
(* Every update put in the queue is handled, so the status handler of that *)
(* user runs again and again; a handler suspended in an await is resumed   *)
(* (the reply returns, and the HTTP request of the selector returns or     *)
(* times out after 10 s).                                                  *)
(***************************************************************************)
PollingUser == 1

StatusOf(user) ==
    /\ NoneSuspended
    /\ \E t \in TaskIds : duel_status(t, user)
    /\ UNCHANGED <<streakVars, hist, sel, report>>

SpecPolling ==
    /\ SpecSerial
    /\ SF_vars(StatusOf(PollingUser))
    /\ WF_vars(StatusComplete)
    /\ WF_vars(AcceptFetched)

TypeOK ==
    /\ Len(duels) <= MaxDuels
    /\ users \subseteq Users
    /\ now \in 0..MaxTime
    /\ \A t \in TaskIds : tasks[t].pc \in {"idle", "fetch", "timeup"}

(***************************************************************************)
(* SpecStreak: update_streak is called for any user on any date, in any    *)
(* order of the dates: today is datetime.now().date(), the wall clock of   *)
(* the host.  The duel tables are left alone.                              *)
(***************************************************************************)
UpdateStreak ==
    /\ \E user_id \in Users, today \in Days : update_streak(user_id, today)
    /\ UNCHANGED <<duelVars, hist, sel, report>>

NextStreak == UpdateStreak

SpecStreak == Init /\ [][NextStreak]_vars

(***************************************************************************)
(* SpecHistory: calculate_streak_from_submissions is called on any list of *)
(* submissions while the clock shows any date.  The function reads nothing *)
(* but its argument and the clock, so a behaviour is one call.             *)
(***************************************************************************)
InitCalculate ==
    /\ InitDuels
    /\ InitStreaks
    /\ InitSelector
    /\ InitReport
    /\ \E submissions \in NewestFirst(MaxSubs, 2 * MaxHistDay + 1), today \in HistDays :
          hist = [called |-> FALSE, submissions |-> submissions, today |-> today,
                  result |-> StreakData(0, 0, 0)]

CalculateStreak ==
    /\ ~hist.called
    /\ hist' = [hist EXCEPT
                  !.called = TRUE,
                  !.result = calculate_streak_from_submissions(hist.submissions,
                                                               hist.today)]
    /\ UNCHANGED <<duelVars, streakVars, sel, report>>

NextHistory == CalculateStreak

SpecHistory == InitCalculate /\ [][NextHistory]_vars

(***************************************************************************)
(* SpecShowStreak: /streak is sent by any user on any date, in any order   *)
(* of the dates, whatever the platform lists for the handle.               *)
(***************************************************************************)
ShowStreak ==
    /\ \E user_id \in Users, linked \in BOOLEAN, today \in Days :
          \E submissions \in ShowHistories(today) :
              show_streak(user_id, linked, submissions, today)
    /\ UNCHANGED <<duelVars, sel, report>>

NextShowStreak == ShowStreak

SpecShowStreak == Init /\ [][NextShowStreak]_vars

(***************************************************************************)
(* SpecReport: /report is sent once, on any history the platform lists.    *)
(* The handler reads nothing but the handle, the history and the clock.    *)
(***************************************************************************)
InitWeeklyReport ==
    /\ InitDuels
    /\ InitStreaks
    /\ InitHistory
    /\ InitSelector
    /\ \E linked \in BOOLEAN, submissions \in ReportHistories(MaxReportSubs, ReportNow) :
          report = [called |-> FALSE, linked |-> linked, submissions |-> submissions,
                    clock |-> ReportNow, result |-> NoReport]

WeeklyReport ==
    /\ ~report.called
    /\ report' = [report EXCEPT
                    !.called = TRUE,
                    !.result = WeeklyReportOutcome(report.linked, report.submissions,
                                                   report.clock)]
    /\ UNCHANGED <<duelVars, streakVars, hist, sel>>

NextReport == WeeklyReport

SpecReport == InitWeeklyReport /\ [][NextReport]_vars

(***************************************************************************)
(* SpecSelector: the selector is called with any rating and topic on any   *)
(* answer of the platform.  It reads nothing but its arguments and the     *)
(* answer, so a behaviour is one call; random.choice may draw any          *)
(* candidate.                                                              *)
(***************************************************************************)
InitSelect ==
    /\ InitDuels
    /\ InitStreaks
    /\ InitHistory
    /\ InitReport
    /\ \E rating \in SelectorRatings, topic \in Topics \cup {NoTopic},
          resp \in SelectorResponses :
          sel = [called |-> FALSE, rating |-> rating, topic |-> topic,
                 resp |-> resp, result |-> NoProblem]

GetRandomProblem ==
    /\ ~sel.called
    /\ sel.topic = NoTopic
    /\ \E result \in get_random_problem(sel.resp, sel.rating) :
          sel' = [sel EXCEPT !.called = TRUE, !.result = result]
    /\ UNCHANGED <<duelVars, streakVars, hist, report>>

GetProblemByTopic ==
    /\ ~sel.called
    /\ sel.topic # NoTopic
    /\ \E result \in get_problem_by_topic(sel.resp, sel.topic, sel.rating) :
          sel' = [sel EXCEPT !.called = TRUE, !.result = result]
    /\ UNCHANGED <<duelVars, streakVars, hist, report>>

NextSelector == GetRandomProblem \/ GetProblemByTopic

SpecSelector == InitSelect /\ [][NextSelector]_vars

(***************************************************************************)
(* Vocabulary of the properties, stated on the stored rows directly.       *)
(***************************************************************************)
Rows == 1..Len(duels)

Participant(d, u) == duels[d].challenger_id = u \/ duels[d].challenged_id = u

PendingChallenging(u) ==
    {d \in Rows : duels[d].status = "pending" /\ duels[d].challenged_id = u}

ActiveOf(u) == {d \in Rows : duels[d].status = "active" /\ Participant(d, u)}

Unbound(d) ==
    /\ duels[d].start_time = NullTime
    /\ duels[d].end_time = NullTime
    /\ duels[d].problem_name = NullText
    /\ duels[d].problem_url = <<>>

\* The steps of the handlers, told by the record of the step and by the frame
\* that is resumed: a handler starts in a step that resumes no frame.
AcceptStarts(u) ==
    /\ last'.op = "accept" /\ last'.user = u
    /\ \A t \in TaskIds : tasks[t].pc = "fetch" => tasks'[t] = tasks[t]

DeclineRuns(u) == last'.op = "decline" /\ last'.user = u

StatusStarts(u) ==
    /\ last'.op = "status" /\ last'.user = u
    /\ \A t \in TaskIds : tasks[t].pc = "timeup" => tasks'[t] = tasks[t]

StatusCompletes(t) == tasks[t].pc = "timeup" /\ tasks'[t] # tasks[t]

Bound(d) ==
    /\ duels[d].start_time # NullTime
    /\ duels[d].end_time # NullTime
    /\ duels[d].problem_name # NullText
    /\ duels[d].problem_url # <<>>

(***************************************************************************)
(* C1: when every handler runs to completion before the next starts, no    *)
(* user is ever the challenged party of more than one pending duel.        *)
(***************************************************************************)
AtMostOnePendingPerUser ==
    \A u \in Users : Cardinality(PendingChallenging(u)) <= 1

\* a challenge was refused because of the pending duel, after an earlier duel
\* of the same user had already left the pending status
C1Witness ==
    /\ last.op = "challenge" /\ last.outcome = "AlreadyPending"
    /\ \E u \in Users, d \in Rows :
          /\ Cardinality(PendingChallenging(u)) = 1
          /\ duels[d].challenged_id = u
          /\ duels[d].status \in {"active", "declined", "completed"}

(***************************************************************************)
(* C2: the pending check of a challenge and its insert are one step: a     *)
(* duel is inserted only in a state that holds no pending duel for its     *)
(* challenged user, also while other handlers are suspended, and so no     *)
(* interleaving leaves a user with two pending duels.                      *)
(***************************************************************************)
ChallengeCheckInsertAtomic ==
    /\ [][\A d \in 1..Len(duels') :
            d > Len(duels) =>
               /\ duels'[d].status = "pending"
               /\ PendingChallenging(duels'[d].challenged_id) = {}]_vars
    /\ [](\A u \in Users : Cardinality(PendingChallenging(u)) < 2)

\* a second challenge to the same user arrives at the same instant as the
\* first, while that user's accept of the first is suspended in its fetch
C2Witness ==
    /\ last.op = "challenge" /\ last.outcome = "AlreadyPending"
    /\ \E d \in Rows, t \in TaskIds :
          /\ duels[d].status = "pending"
          /\ duels[d].challenger_id = last.user
          /\ duels[d].created_at = ToIso(now)
          /\ tasks[t].pc = "fetch" /\ tasks[t].duel = d

StatusTransition(old, new) ==
    \/ old = new
    \/ old = "pending" /\ new \in {"active", "declined"}
    \/ old = "active" /\ new = "completed"

AcceptDeclineNeedPending ==
    [][\A u \in Users :
          (PendingChallenging(u) = {} /\ (AcceptStarts(u) \/ DeclineRuns(u)))
          => (last'.outcome = "NoPendingDuel" /\ UNCHANGED <<duels, tasks>>)]_vars

\* an accept was refused for a user whose only duel had been declined
C5Witness ==
    /\ last.op = "accept" /\ last.outcome = "NoPendingDuel"
    /\ PendingChallenging(last.user) = {}
    /\ \E d \in Rows : duels[d].challenged_id = last.user /\ duels[d].status = "declined"

(***************************************************************************)
(* C6: an accept that gets no problem from the selector ends as            *)
(* ProblemUnavailable and leaves its duel pending with start time, end     *)
(* time and problem unbound, as the one pending duel of that user, the     *)
(* duel a later accept of the user takes up.                               *)
(***************************************************************************)
FailedAcceptLeavesPending ==
    (last.op = "accept" /\ last.outcome = "ProblemUnavailable") =>
        /\ duels[last.duel].status = "pending"
        /\ Unbound(last.duel)
        /\ duels[last.duel].challenged_id = last.user
        /\ PendingChallenging(last.user) = {last.duel}

\* the selector found no problem for a duel whose challenged user has
\* another duel already running
C6Witness ==
    /\ last.op = "accept" /\ last.outcome = "ProblemUnavailable"
    /\ duels[last.duel].status = "pending"
    /\ \E d \in Rows : d # last.duel /\ duels[d].status = "active"

(***************************************************************************)
(* C7: every stored duel that is active or completed has its start time,   *)
(* end time, problem name and problem url bound, and its end time is its   *)
(* start time plus 60 minutes.                                             *)
(***************************************************************************)
StartedDuelsAreBound ==
    \A d \in Rows :
        duels[d].status \in {"active", "completed"} =>
            /\ Bound(d)
            /\ FromIso(duels[d].end_time) = FromIso(duels[d].start_time) + 60

\* one duel is running and another has run out
C7Witness ==
    \E d, e \in Rows :
        /\ duels[d].status = "active" /\ Bound(d)
        /\ duels[e].status = "completed" /\ Bound(e)

(***************************************************************************)
(* C8: a status call that reads an active duel goes on to complete it      *)
(* exactly when now >= end_time, now = end_time included; when             *)
(* now < end_time it reports the remaining time and changes nothing; and   *)
(* an active duel becomes completed only through such a call.              *)
(***************************************************************************)
StatusExpiry ==
    [][/\ \A u \in Users :
            (StatusStarts(u) /\ ActiveOf(u) # {}) =>
               /\ last'.duel \in ActiveOf(u)
               /\ (now >= FromIso(duels[last'.duel].end_time))
                     <=> (\E t \in TaskIds : /\ tasks[t].pc = "idle"
                                              /\ tasks'[t].pc = "timeup"
                                              /\ tasks'[t].duel = last'.duel)
               /\ (now < FromIso(duels[last'.duel].end_time))
                     => (last'.outcome = "Remaining" /\ UNCHANGED <<duels, tasks>>)
       /\ \A t \in TaskIds :
            StatusCompletes(t) => duels'[tasks[t].duel].status = "completed"
       /\ \A d \in Rows :
            (duels[d].status = "active" /\ duels'[d].status = "completed") =>
               /\ now >= FromIso(duels[d].end_time)
               /\ \E t \in TaskIds : tasks[t].pc = "timeup" /\ tasks[t].duel = d
                                        /\ tasks'[t].pc = "idle"]_vars

\* a duel was completed by a status call made at the very minute it ended
C8Witness ==
    /\ last.op = "status" /\ last.outcome = "Completed"
    /\ duels[last.duel].status = "completed"
    /\ FromIso(duels[last.duel].end_time) = now

(***************************************************************************)
(* C9, as the spec states it: once a duel is completed, a later status     *)
(* call by one of its participants reports that duel.                      *)
(***************************************************************************)
LaterStatusReportsCompleted ==
    [][\A u \in Users :
          (StatusStarts(u)
             /\ \E d \in Rows : duels[d].status = "completed" /\ Participant(d, u))
          => (last'.duel # NullId /\ duels[last'.duel].status = "completed"
                /\ UNCHANGED <<duels, tasks>>)]_vars

(***************************************************************************)
(* C9, amended: a duel is written as completed once, while it is active;   *)
(* a completed duel is never written again, and a later status call never  *)
(* reads it: the call fails with NoActiveDuel unless its user takes part   *)
(* in another duel that is still active.                                   *)
(***************************************************************************)
CompletedOnce ==
    [][/\ \A d \in Rows : duels[d].status = "completed" => duels'[d] = duels[d]
       /\ \A t \in TaskIds : StatusCompletes(t) => duels[tasks[t].duel].status = "active"
       /\ \A u \in Users :
            StatusStarts(u) =>
               /\ last'.duel # NullId => duels[last'.duel].status = "active"
               /\ ActiveOf(u) = {} => last'.outcome = "NoActiveDuel"]_vars

\* a participant of a completed duel asked for the status again and was
\* told there is no active duel
C9Witness ==
    /\ last.op = "status" /\ last.outcome = "NoActiveDuel"
    /\ \E d \in Rows : duels[d].status = "completed" /\ Participant(d, last.user)

(***************************************************************************)
(* C10: a status call by U reads the active duel of U with the latest      *)
(* creation time and writes no other duel; when U takes part in no active  *)
(* duel it ends as NoActiveDuel and changes nothing.                       *)
(***************************************************************************)
StatusReadsMostRecentActive ==
    [][/\ \A u \in Users :
            StatusStarts(u) =>
               /\ UNCHANGED duels
               /\ IF ActiveOf(u) = {}
                  THEN last'.outcome = "NoActiveDuel" /\ UNCHANGED tasks
                  ELSE /\ last'.duel \in ActiveOf(u)
                       /\ \A j \in ActiveOf(u) :
                             FromIso(duels[j].created_at)
                                <= FromIso(duels[last'.duel].created_at)
                       /\ \A t \in TaskIds :
                             tasks'[t] # tasks[t] => tasks'[t].duel = last'.duel
       /\ \A t \in TaskIds :
            StatusCompletes(t) =>
               \A j \in Rows : j # tasks[t].duel => duels'[j] = duels[j]]_vars

\* the call read the newer of two active duels of its user
C10Witness ==
    /\ last.op = "status" /\ last.duel # NullId
    /\ \E j \in ActiveOf(last.user) :
          /\ j # last.duel
          /\ FromIso(duels[j].created_at) < FromIso(duels[last.duel].created_at)

(***************************************************************************)
(* C11: a challenge that ends as RatingOutOfRange, SelfChallenge or        *)
(* NotGroup changes no duel and no user record, and no challenge with such *)
(* an input gets through: every stored duel has a challenger different     *)
(* from its challenged user, a rating in 800..3500 and the id of a group   *)
(* chat.                                                                   *)
(***************************************************************************)
GroupChatIds == {c.id : c \in {k \in Chats : k.type \in {"group", "supergroup"}}}

RejectedChallenge ==
    /\ [](\A d \in Rows :
            /\ duels[d].challenger_id # duels[d].challenged_id
            /\ duels[d].problem_rating >= 800 /\ duels[d].problem_rating <= 3500
            /\ duels[d].chat_id \in GroupChatIds)
    /\ [][(last'.op = "challenge"
             /\ last'.outcome \in {"RatingOutOfRange", "SelfChallenge", "NotGroup"})
          => UNCHANGED <<duels, users>>]_vars

\* a user challenged themselves before any user record existed
C11Witness ==
    /\ last.op = "challenge" /\ last.outcome = "SelfChallenge"
    /\ duels = <<>> /\ users = {}

(***************************************************************************)
(* C12.  The scenario: A has challenged B at rating 1400 in a group chat,  *)
(* B has accepted, and the duel is active with end_time = start_time + 60  *)
(* minutes.  A now challenges B again with the same command.               *)
(***************************************************************************)
ScenarioDuel(d, a, b) ==
    /\ duels[d].challenger_id = a /\ duels[d].challenged_id = b
    /\ duels[d].problem_rating = 1400 /\ duels[d].chat_id = GroupChat.id
    /\ duels[d].status = "active"
    /\ FromIso(duels[d].end_time) = FromIso(duels[d].start_time) + 60

SecondChallenge(a, b) ==
    /\ a # b
    /\ \E d \in Rows : ScenarioDuel(d, a, b)
    /\ challenge_user(GroupChat, a, GoodArgs, b)

(***************************************************************************)
(* C12, as the spec states it: the second challenge fails with             *)
(* AlreadyPending and creates no duel.                                     *)
(***************************************************************************)
SecondChallengeAlreadyPending ==
    [][\A a, b \in Users :
          SecondChallenge(a, b) =>
             (last'.outcome = "AlreadyPending" /\ UNCHANGED duels)]_vars

(***************************************************************************)
(* C12, amended: the active duel does not stand in the way.  The second    *)
(* challenge fails with AlreadyPending exactly when B is the challenged    *)
(* party of another duel that is pending; otherwise it adds a second duel  *)
(* of A against B, pending, and leaves the active one as it is.            *)
(***************************************************************************)
SecondChallengeCreatesDuel ==
    [][\A a, b \in Users :
          SecondChallenge(a, b) =>
             IF PendingChallenging(b) # {}
             THEN last'.outcome = "AlreadyPending" /\ UNCHANGED duels
             ELSE /\ last'.outcome = "Challenged"
                  /\ Len(duels') = Len(duels) + 1
                  /\ duels'[Len(duels')].status = "pending"
                  /\ duels'[Len(duels')].challenger_id = a
                  /\ duels'[Len(duels')].challenged_id = b
                  /\ \A d \in Rows : duels'[d] = duels[d]]_vars

\* the second challenge of the scenario went through while the first duel
\* was still running
C12Witness ==
    /\ last.op = "challenge" /\ last.outcome = "Challenged" /\ last.duel = 2
    /\ duels[1].status = "active" /\ duels[2].status = "pending"
    /\ duels[1].challenger_id = duels[2].challenger_id
    /\ duels[1].challenged_id = duels[2].challenged_id
    /\ duels[1].problem_rating = 1400
    /\ now < FromIso(duels[1].end_time)

(***************************************************************************)
(* C13: a challenge that succeeds appends exactly one duel and changes no  *)
(* other; the new duel is pending, has the chat, challenger, challenged    *)
(* user and rating of the command, and no problem, start time, end time or *)
(* winner; afterwards both of its users have a user record, and no user    *)
(* record is lost.                                                         *)
(***************************************************************************)
SuccessfulChallenge ==
    [][(last'.op = "challenge" /\ last'.outcome = "Challenged") =>
          /\ Len(duels') = Len(duels) + 1
          /\ \A d \in Rows : duels'[d] = duels[d]
          /\ LET n == duels'[Len(duels')] IN
                /\ n.status = "pending"
                /\ n.problem_name = NullText /\ n.problem_url = <<>>
                /\ n.start_time = NullTime /\ n.end_time = NullTime
                /\ n.winner_id = NullId
                /\ \E i \in ChallengeInputs :
                      challenge_user(i.chat, i.user, i.args, i.replied)
                /\ \A i \in ChallengeInputs :
                      challenge_user(i.chat, i.user, i.args, i.replied) =>
                         /\ n.chat_id = i.chat.id
                         /\ n.challenger_id = i.user
                         /\ n.challenged_id = i.replied
                         /\ Len(i.args) >= 2 /\ n.problem_rating = i.args[2].val
                /\ users' = users \cup {n.challenger_id, n.challenged_id}]_vars

\* the second duel was created after the first had run out, by the user the
\* first one had challenged
C13Witness ==
    /\ last.op = "challenge" /\ last.outcome = "Challenged" /\ last.duel = 2
    /\ duels[1].status = "completed" /\ duels[2].status = "pending"
    /\ duels[2].challenger_id = duels[1].challenged_id
    /\ {duels[2].challenger_id, duels[2].challenged_id} \subseteq users

(***************************************************************************)
(* C14: a call of update_streak for a user whose stored last solve date is *)
(* the date of the call leaves the user's current streak, max streak, last *)
(* solve date and total unchanged.                                         *)
(***************************************************************************)
SameDayIdempotent ==
    [][\A u \in Users :
          (call'.user = u /\ streaks[u].exists
             /\ streaks[u].last_solve_date = ToIsoDate(call'.today))
          => /\ streaks'[u].current_streak = streaks[u].current_streak
             /\ streaks'[u].max_streak = streaks[u].max_streak
             /\ streaks'[u].last_solve_date = streaks[u].last_solve_date
             /\ streaks'[u].total_solves = streaks[u].total_solves]_vars

\* the second call of a day, made for a user with a streak of two days
C14Witness ==
    /\ call.user # NullId /\ call.branch = "same"
    /\ streaks[call.user].last_solve_date = ToIsoDate(call.today)
    /\ streaks[call.user].current_streak = 2
    /\ streaks[call.user].total_solves = 2

(***************************************************************************)
(* C15: whatever dates update_streak is called on and in whatever order,   *)
(* every stored streak has current_streak <= max_streak.                   *)
(***************************************************************************)
CurrentAtMostMax ==
    \A u \in Users : streaks[u].current_streak <= streaks[u].max_streak

\* a streak of two days was broken by a call two days later
C15Witness ==
    /\ call.user # NullId /\ call.branch = "broken"
    /\ ordered[call.user]
    /\ streaks[call.user].current_streak = 1
    /\ streaks[call.user].max_streak = 2

(***************************************************************************)
(* C16: no call of update_streak lowers the max_streak of any user, the    *)
(* calls that start the current streak over included.                      *)
(***************************************************************************)
MaxStreakNeverDecreases ==
    [][\A u \in Users : streaks'[u].max_streak >= streaks[u].max_streak]_vars

\* a streak of two days was started over by a call dated before the last one
C16Witness ==
    /\ call.user # NullId /\ call.branch = "broken"
    /\ ~ordered[call.user]
    /\ streaks[call.user].current_streak = 1
    /\ streaks[call.user].max_streak = 2
    /\ \E d \in solved[call.user] : d > call.today

(***************************************************************************)
(* C17: a call on day T for a user whose last solve date is T - 1 adds 1   *)
(* to the current streak; a call for a user without a row, or whose last   *)
(* solve date is any date other than T and T - 1, sets it to 1, which is   *)
(* not the streak plus 1.                                                  *)
(***************************************************************************)
StreakStep ==
    [][\A u \in Users :
          call'.user = u =>
             LET T == call'.today
                 row == streaks[u]
             IN  IF ~row.exists THEN streaks'[u].current_streak = 1
                 ELSE IF row.last_solve_date = ToIsoDate(T) THEN TRUE
                 ELSE IF T >= 1 /\ row.last_solve_date = ToIsoDate(T - 1)
                 THEN streaks'[u].current_streak = row.current_streak + 1
                 ELSE /\ streaks'[u].current_streak = 1
                      /\ streaks'[u].current_streak # row.current_streak + 1]_vars

\* solves on 28 February and on 1 March of a leap year and on no other day
C17Witness ==
    /\ call.user # NullId /\ call.today = 3
    /\ solved[call.user] = {1, 3} /\ ordered[call.user]
    /\ streaks[call.user].current_streak = 1
    /\ streaks[call.user].total_solves = 2

(***************************************************************************)
(* C18: a call that is not the second of its day stores its date as the    *)
(* last solve date and adds exactly 1 to total_solves (the first call      *)
(* of a user stores 1); so for a user whose calls came on non-decreasing   *)
(* dates total_solves is the number of distinct dates called on.           *)
(***************************************************************************)
TotalCountsSolveDays ==
    /\ [][\A u \in Users :
            (call'.user = u /\ streaks[u].last_solve_date # ToIsoDate(call'.today))
            => /\ streaks'[u].last_solve_date = ToIsoDate(call'.today)
               /\ streaks'[u].total_solves = streaks[u].total_solves + 1]_vars
    /\ [](\A u \in Users :
            ordered[u] => streaks[u].total_solves = Cardinality(solved[u]))

\* three solve days, the last of them called on twice
C18Witness ==
    /\ call.user # NullId /\ call.branch = "same"
    /\ ordered[call.user]
    /\ Cardinality(solved[call.user]) = 3
    /\ streaks[call.user].total_solves = 3

(***************************************************************************)
(* Vocabulary of the streak claims: the dates with an accepted submission  *)
(* in the list of the call, and the runs of consecutive dates among them.  *)
(***************************************************************************)
SolveDates ==
    {d \in HistDays : \E i \in 1..Len(hist.submissions) :
        /\ hist.submissions[i].verdict = "OK"
        /\ hist.submissions[i].creationTimeSeconds \in {2 * d, 2 * d + 1}}

\* the length of the longest run of consecutive dates of S that ends at d
RunEndingAt(S, d) ==
    Cardinality({k \in 1..(MaxHistDay + 1) : \A j \in 0..(k - 1) : (d - j) \in S})

LongestRun(S) == SetMax({RunEndingAt(S, d) : d \in HistDays})

MaxStreakIsLongestRun ==
    hist.called =>
        /\ hist.result.max_streak = LongestRun(SolveDates)
        /\ Cardinality(SolveDates) = 1 => hist.result.max_streak = 1
        /\ (hist.today >= 2 /\ SolveDates = {hist.today - 2, hist.today})
             => (hist.result.current_streak = 1 /\ hist.result.max_streak = 1)
        /\ SolveDates = {} => hist.result = StreakData(0, 0, 0)

\* two runs of two dates with a gap of one date between them
C20Witness ==
    /\ hist.called
    /\ SolveDates = {0, 1, 3, 4}
    /\ hist.result.max_streak = 2

(***************************************************************************)
(* C21: only the accepted submissions count.  total_solves is the number   *)
(* of distinct dates with an accepted submission, however many accepted    *)
(* submissions a date holds, and the three results are those of the list   *)
(* with its rejected submissions taken out.                                *)
(***************************************************************************)
HasOkVerdict(s) == s.verdict = "OK"

AcceptedOnly ==
    hist.called =>
        /\ hist.result.total_solves = Cardinality(SolveDates)
        /\ hist.result =
              calculate_streak_from_submissions(SelectSeq(hist.submissions, HasOkVerdict),
                                                hist.today)

\* two accepted submissions on the day of the call and a rejected one on the
\* day before
C21Witness ==
    /\ hist.called /\ hist.today >= 1
    /\ SolveDates = {hist.today}
    /\ Len(hist.submissions) = 3
    /\ hist.submissions[1].creationTimeSeconds # hist.submissions[2].creationTimeSeconds
    /\ hist.submissions[3].verdict # "OK"
    /\ hist.submissions[3].creationTimeSeconds = 2 * (hist.today - 1)
    /\ hist.result = StreakData(1, 1, 1)

(***************************************************************************)
(* The selector: what a call was given and what it returned.               *)
(***************************************************************************)
HasId(p) == p.contestId # 0 /\ p.index # ""

TagMatches(p, topic) == \E t \in p.tags : Lower(t) = Lower(topic)

RatedWithin(p, rating, window) ==
    p.hasRating /\ rating - window <= p.rating /\ p.rating <= rating + window

\* the problem of the answer the returned dictionary was built from
Drawn(p) ==
    /\ HasId(p)
    /\ sel.result.name = p.name
    /\ sel.result.rating = p.rating
    /\ sel.result.url = format_problem_url(p.contestId, p.index)

(***************************************************************************)
(* C22: with a rating r and no topic, every problem the selector returns   *)
(* is rated within [r - 100, r + 100]; for r = 1400, within [1300, 1500].  *)
(***************************************************************************)
RatingWithinWindow ==
    (sel.called /\ sel.topic = NoTopic /\ sel.rating # 0 /\ sel.result.found) =>
        /\ sel.rating - 100 <= sel.result.rating
        /\ sel.result.rating <= sel.rating + 100
        /\ sel.rating = 1400 => sel.result.rating \in 1300..1500
        /\ \E p \in sel.resp.problems : Drawn(p) /\ RatedWithin(p, sel.rating, 100)

\* the lowest rating of the window is returned while the answer holds
\* problems just outside either end
C22Witness ==
    /\ sel.called /\ sel.topic = NoTopic /\ sel.rating = 1400
    /\ sel.result.found /\ sel.result.rating = 1300
    /\ \E p, q \in sel.resp.problems : p.rating = 1299 /\ q.rating = 1501

NarrowedAsSpecified ==
    {p \in sel.resp.problems :
        /\ sel.rating # 0 => RatedWithin(p, sel.rating, 100)
        /\ sel.topic # NoTopic => TagMatches(p, sel.topic)}

MayBeDrawn ==
    {p \in sel.resp.problems :
        /\ sel.rating # 0 =>
              IF sel.topic = NoTopic THEN RatedWithin(p, sel.rating, 100) ELSE p.hasRating
        /\ sel.topic # NoTopic => TagMatches(p, sel.topic)}

PendingLeftOnlyByChallenged ==
    [][/\ \A d \in Rows :
             (duels[d].status = "pending" /\ duels'[d].status # "pending") =>
                 /\ last'.op \in {"accept", "decline"}
                 /\ last'.user = duels[d].challenged_id
                 /\ last'.duel = d
                 /\ duels'[d].status = (IF last'.op = "accept" THEN "active" ELSE "declined")
       /\ \A u \in Users :
             (PendingChallenging(u) # {} /\ Len(duels') > Len(duels)) =>
                 duels'[Len(duels')].challenged_id # u]_vars

\* the duel is still pending an hour later, after its challenger asked for
\* the status and challenged the same user again in vain
C26Witness ==
    /\ Len(duels) = 1 /\ duels[1].status = "pending"
    /\ now >= 60
    /\ now > FromIso(duels[1].created_at)
    /\ last = Outcome("challenge", duels[1].challenger_id, "AlreadyPending", NullId)

(***************************************************************************)
(* C27: while a user keeps sending /duelstatus and the end time of every   *)
(* active duel the user takes part in has passed, each of those duels is   *)
(* eventually completed, also when several of them are active at once and  *)
(* each call handles the most recent one only.  The hypothesis ends when   *)
(* the user gets a new active duel that is still running.                  *)
(***************************************************************************)
Over(d) == duels[d].end_time # NullTime /\ FromIso(duels[d].end_time) <= now

AllOver(u) == \A d \in ActiveOf(u) : Over(d)

PollingCompletesEveryDuel ==
    \A d \in 1..MaxDuels :
        (d \in ActiveOf(PollingUser) /\ AllOver(PollingUser))
            ~> \/ d \in Rows /\ duels[d].status = "completed"
               \/ ~AllOver(PollingUser)

\* two duels of the polling user that were active at once are both
\* completed, the older one by the later call
C27Witness ==
    /\ Len(duels) = 2
    /\ \A d \in Rows : duels[d].status = "completed" /\ Participant(d, PollingUser)
    /\ FromIso(duels[2].start_time) < FromIso(duels[1].end_time)
    /\ last = Outcome("status", PollingUser, "Completed", 1)

(***************************************************************************)
(* C28: /accept answers that the duel has started only when the write that *)
(* makes the duel active took effect; when update_duel_status fails, the   *)
(* sender gets a failure and the duel is still pending.                    *)
(***************************************************************************)
StartedOnlyWhenStored ==
    (last.op = "accept" /\ last.outcome = "Started") =>
        /\ last.duel \in Rows
        /\ duels[last.duel].status = "active"
        /\ Bound(last.duel)

(***************************************************************************)
(* C29: a /streak sent on a date for which the fetched history holds no    *)
(* accepted submission leaves the stored current streak, max streak, last  *)
(* solve date and total of every user as they were.                        *)
(***************************************************************************)
AcceptedOn(submissions, day) ==
    \E i \in 1..Len(submissions) :
        /\ submissions[i].verdict = "OK"
        /\ DateOfTimestamp(submissions[i].creationTimeSeconds) = day

QueryWithoutSolveKeepsStreak ==
    [][(hist'.called /\ ~AcceptedOn(hist'.submissions, hist'.today))
          => streaks' = streaks]_vars

(***************************************************************************)
(* C30: on every history that is not empty, weekly_report ends with the    *)
(* report as its reply and raises nothing, also when no submission of the  *)
(* history was made within the last 7 days.                                *)
(***************************************************************************)
ReportNeverRaises ==
    (report.called /\ report.linked /\ report.submissions # <<>>) =>
        report.result.outcome = "Report"

====
